---- MODULE Spec2Model ----
(***************************************************************************)
(* Incremental vector-index synchronisation of repomix's search action.   *)
(*                                                                         *)
(* The model follows runSearchAction and updateVectorDB                    *)
(* (cli/actions/searchAction.ts) and loadFileMetadata / saveFileMetadata   *)
(* (core/metadata/metadataManager.ts).  The state is the working directory *)
(* on disk (user files, the ledger file repomix-metadata.json, the         *)
(* persisted index repomix-vector.faiss) and the local variables of the    *)
(* run in progress.  FaissStore, the embedding API and the filesystem are  *)
(* external: each of their calls either succeeds or throws, chosen         *)
(* nondeterministically.                                                   *)
(*                                                                         *)
(* Spec has every fault; SpecPersistOk, SpecOptions, SpecInterrupt and     *)
(* SpecQuery restrict or vary one aspect of a run; SpecLedger is a caller  *)
(* of the metadata manager alone; SpecSearch is the older searchAction     *)
(* (configuration, file filter, one vector per file).                      *)
(***************************************************************************)
EXTENDS Integers, Sequences, FiniteSets, Bags, TLC

VARIABLES
    files,         \* user files of the working directory: path -> [content, mtime], content 0 = absent
    diskMeta,      \* repomix-metadata.json on disk: [kind, map, ver, mtime]
    diskIndex,     \* repomix-vector.faiss on disk: [kind, docs]
    pc,            \* position of runSearchAction
    forceUpdate,   \* options.forceUpdateVector of the run in progress
    vectorStore,   \* the in-memory FaissStore: a bag of documents
    fileMetadata,  \* the in-memory ledger: path -> [hash, timestamp]
    listOfFiles,   \* the directory listing of the run, in readdir order
    idx,           \* position of the for loop in listOfFiles
    ops,           \* the calls the run has issued so far, in order
    logged,        \* paths for which updateVectorDB logged "Error processing file"
    error,         \* the rejection reason of the run ("none" while it has not rejected)
    events,        \* runs started + calls that have thrown + changes made to the directory
    quiet,         \* the last run was a run without force that completed without a per-file error, and the user has changed nothing since
    repeat,        \* the run in progress started in a quiet state
    openAIApiKey,  \* options.openaiApiKey || process.env.OPENAI_API_KEY of the run in progress
    vectorIndexPath, \* where the run in progress keeps its index: [explicit, parentWritable]
    interrupted,   \* the process of the previous run was killed before its promise settled
    metadata,      \* the mapping a caller of saveFileMetadata hands over
    searched,      \* the similarity query of the run: [k, docs], the documents in the order returned
    printed        \* the result lines the run has logged

vars ==
    << files, diskMeta, diskIndex, pc, forceUpdate, vectorStore, fileMetadata,
       listOfFiles, idx, ops, logged, error, events, quiet, repeat,
       openAIApiKey, vectorIndexPath, interrupted, metadata, searched, printed >>

runVars ==
    << pc, forceUpdate, vectorStore, fileMetadata, listOfFiles, idx, ops, logged, error, repeat,
       openAIApiKey, vectorIndexPath >>

----------------------------------------------------------------------------
(* Bounds *)

\* runs started, failing calls and changes of the working directory in one behaviour
MaxEvents == 4
\* distinct file contents, and distinct modification times
MaxVersion == 2
\* blanks before and after an API key
MaxPad == 1
\* events in one behaviour of the specifications that vary the options of a run or the
\* answer of the similarity query
MaxOptionEvents == 2

----------------------------------------------------------------------------
(* The working directory *)

UserFiles == {"a.txt", "b.txt"}
MetaFile == "repomix-metadata.json"
IndexDir == "repomix-vector.faiss"

\* readdir order: a fixed order of the entries that can exist
DirOrder == << "a.txt", "b.txt", "repomix-metadata.json", "repomix-vector.faiss" >>

Paths == UserFiles \cup {MetaFile}

\* an absent file
NoFile == [content |-> 0, mtime |-> 0]

\* fs.stat / readdir see the entry
Exists(p) ==
    IF p \in UserFiles THEN files[p].content # 0
    ELSE IF p = MetaFile THEN diskMeta.kind \notin {"absent", "nodir"}
    ELSE diskIndex.kind # "absent"

\* fileStat.isFile(): the persisted index is a directory, everything else a regular file
IsFile(p) == p # IndexDir

\* the bytes of a regular file; the ledger file's bytes are identified by its version
FileContent(p) ==
    IF p \in UserFiles THEN << "text", files[p].content >> ELSE << "ledger", diskMeta.ver >>

\* fileStats.mtimeMs
FileMtime(p) == IF p \in UserFiles THEN files[p].mtime ELSE diskMeta.mtime

\* fs.readdir(process.cwd())
ReadDir == SelectSeq(DirOrder, Exists)

----------------------------------------------------------------------------
(* getFileHash: sha256 over the file's bytes, an injective digest of the content *)

getFileHash(content) == << "sha256", content >>

----------------------------------------------------------------------------
(* The ledger (FileMetadata) and its JSON file *)

EmptyLedger == [p \in {} |-> [hash |-> << >>, timestamp |-> 0]]

\* fileMetadata[filePath] = { hash, timestamp }
SetEntry(fm, p, h, t) ==
    [q \in DOMAIN fm \cup {p} |-> IF q = p THEN [hash |-> h, timestamp |-> t] ELSE fm[q]]

\* the keys of a ledger in the order JSON.stringify writes them
KeySeq(fm) == SelectSeq(DirOrder, LAMBDA p : p \in DOMAIN fm)

\* mutant: the timestamps are lost in the file
Stringify_DropTimestamp(fm) ==
    [i \in 1..Len(KeySeq(fm)) |->
        [key |-> KeySeq(fm)[i], hash |-> fm[KeySeq(fm)[i]].hash, timestamp |-> 0]]

\* JSON.stringify(fileMetadata, null, 2): one member per key
Stringify(fm) ==
    [i \in 1..Len(KeySeq(fm)) |->
        [key |-> KeySeq(fm)[i], hash |-> fm[KeySeq(fm)[i]].hash,
         timestamp |-> fm[KeySeq(fm)[i]].timestamp]]

\* JSON.parse of a well-formed ledger text
Parse(text) ==
    [p \in {text[i].key : i \in 1..Len(text)} |->
        LET i == CHOOSE j \in 1..Len(text) : text[j].key = p
        IN  [hash |-> text[i].hash, timestamp |-> text[i].timestamp]]

NoMeta == [kind |-> "absent", text |-> << >>, ver |-> 0, mtime |-> 0]

\* what fs.readFile and JSON.parse make of the ledger file:
\*   "json" well-formed text, "corrupt" text that JSON.parse rejects, "absent" no such file
\*   (ENOENT), "nodir" no such directory (ENOENT), "unreadable" any other read error
MetaKinds == {"json", "corrupt", "absent", "nodir", "unreadable"}

\* mutant: parse errors and read errors other than ENOENT are thrown to the caller
LoadResult_Propagate(meta) ==
    IF meta.kind = "json" THEN [value |-> Parse(meta.text), thrown |-> FALSE]
    ELSE IF meta.kind \in {"absent", "nodir"} THEN [value |-> EmptyLedger, thrown |-> FALSE]
    ELSE [value |-> EmptyLedger, thrown |-> TRUE]

\* the body of loadFileMetadata: the value it resolves with, and whether it throws instead.
\* The inner catch answers a parse error with {}, the outer catch answers ENOENT and every
\* other read error with {}
LoadResult(meta) ==
    IF meta.kind = "json" THEN [value |-> Parse(meta.text), thrown |-> FALSE]
    ELSE IF meta.kind = "corrupt" THEN [value |-> EmptyLedger, thrown |-> FALSE]
    ELSE IF meta.kind \in {"absent", "nodir"} THEN [value |-> EmptyLedger, thrown |-> FALSE]
    ELSE [value |-> EmptyLedger, thrown |-> FALSE]

\* loadFileMetadata: the parsed mapping, or {} when the file is missing, unreadable or malformed
loadFileMetadata(meta) == LoadResult(meta).value

\* saveFileMetadata on success: mkdir -p of the parent directory, then the file holds the
\* serialised mapping
saveFileMetadata(meta, fm, now) ==
    [kind  |-> "json",
     text  |-> Stringify(fm),
     ver   |-> IF meta.kind = "json" /\ meta.text = Stringify(fm) THEN meta.ver ELSE meta.ver + 1,
     mtime |-> now]

----------------------------------------------------------------------------
(* The vector store: a bag of documents *)

\* addDocuments is called without ids, so the store assigns an id of its own
AutoId == "uuid"

Doc(p, content) == [id |-> AutoId, source |-> p, content |-> content]

\* vectorStore.addDocuments([newDocument])
AddDocument(vs, p, content) == vs (+) SetToBag({Doc(p, content)})

\* vectorStore.delete({ ids: [filePath] }): drops the documents stored under that id
DeleteIds(vs, id) == [d \in {e \in DOMAIN vs : e.id # id} |-> vs[d]]

\* number of vectors whose source is path p
VectorsOf(vs, p) ==
    LET S == {d \in DOMAIN vs : d.source = p}
        RECURSIVE Sum(_)
        Sum(T) == IF T = {} THEN 0 ELSE LET d == CHOOSE e \in T : TRUE IN vs[d] + Sum(T \ {d})
    IN  Sum(S)

NoIndex == [kind |-> "absent", docs |-> EmptyBag]

\* the second argument of similaritySearch
K == 5

\* the second argument of pageContent.slice
SnippetLength == 200

\* no query has been issued
NoSearch == [k |-> 0, docs |-> << >>]

\* vs without one copy of document d
RemoveOne(vs, d) ==
    IF vs[d] = 1 THEN [e \in DOMAIN vs \ {d} |-> vs[e]] ELSE [vs EXCEPT ![d] = @ - 1]

\* number of documents in the store, copies counted
StoreSize(vs) ==
    LET RECURSIVE Sum(_)
        Sum(T) == IF T = {} THEN 0 ELSE LET d == CHOOSE e \in T : TRUE IN vs[d] + Sum(T \ {d})
    IN  Sum(DOMAIN vs)

\* the answers similaritySearch(query, k) can give: the k nearest documents of the store
\* (all of them when it holds fewer), in any order of similarity
RECURSIVE Rankings(_, _)
Rankings(vs, k) ==
    IF k = 0 \/ DOMAIN vs = {} THEN {<< >>}
    ELSE UNION {{<< d >> \o rest : rest \in Rankings(RemoveOne(vs, d), k - 1)} : d \in DOMAIN vs}

\* vectorStore.similaritySearch(searchQuery, k) for the query of the run: one of the
\* rankings, fixed by the store's contents
RECURSIVE similaritySearch(_, _)
similaritySearch(vs, k) ==
    IF k = 0 \/ DOMAIN vs = {} THEN << >>
    ELSE LET d == CHOOSE e \in DOMAIN vs : TRUE
         IN  << d >> \o similaritySearch(RemoveOne(vs, d), k - 1)

\* pageContent.slice(0, n): a text of known length is cut to n characters, of any other
\* text the prefix is kept as such
Slice(content, n) ==
    IF content[1] = "chars"
        THEN << "chars", IF content[2] < n THEN content[2] ELSE n >>
        ELSE << "prefix", content, n >>

\* mutant: the entries are numbered with the array index
PrintResults_FromZero(results) ==
    [i \in 1..Len(results) |->
        [number  |-> i - 1,
         file    |-> results[i].source,
         snippet |-> Slice(results[i].content, SnippetLength)]]

\* results.forEach((doc, index) => ...): entry number index + 1, doc.metadata.source and
\* doc.pageContent.slice(0, 200)
PrintResults(results) ==
    [i \in 1..Len(results) |->
        [number  |-> (i - 1) + 1,
         file    |-> results[i].source,
         snippet |-> Slice(results[i].content, SnippetLength)]]

\* FaissStore.load, or FaissStore.fromTexts([], []) when the load throws
OpenStore(index) == IF index.kind = "ok" THEN index.docs ELSE EmptyBag

----------------------------------------------------------------------------
(* updateVectorDB *)

\* the points of updateVectorDB's try block at which an awaited call can throw
FailPoints == {"none", "stat", "hash", "read", "delete", "insert"}

Op(name, p, ok) == [op |-> name, path |-> p, ok |-> ok]

\* mutant: the hash comparison is dropped
NeedsUpdate_IgnoreHash(fm, filePath, currentHash, force) ==
    filePath \in DOMAIN fm \/ force

\* the condition of the if statement
NeedsUpdate(fm, filePath, currentHash, force) ==
    (filePath \in DOMAIN fm /\ fm[filePath].hash # currentHash) \/ force

\* mutant: the new document is inserted before the old one is deleted
UpdateBody_InsertFirst(filePath, vs, fm, content, currentHash, currentTimestamp, fail) ==
    LET inLedger == filePath \in DOMAIN fm
        delOps   == IF inLedger THEN << Op("delete", filePath, fail # "delete") >> ELSE << >>
        added    == AddDocument(vs, filePath, content)
    IN  IF fail = "read" THEN
            [vectorStore |-> vs, fileMetadata |-> fm, ops |-> << >>, thrown |-> TRUE]
        ELSE IF fail = "insert" THEN
            [vectorStore |-> vs, fileMetadata |-> fm,
             ops |-> << Op("insert", filePath, FALSE) >>, thrown |-> TRUE]
        ELSE IF inLedger /\ fail = "delete" THEN
            [vectorStore |-> added, fileMetadata |-> fm,
             ops |-> << Op("insert", filePath, TRUE) >> \o delOps, thrown |-> TRUE]
        ELSE
            [vectorStore |-> IF inLedger THEN DeleteIds(added, filePath) ELSE added,
             fileMetadata |-> SetEntry(fm, filePath, currentHash, currentTimestamp),
             ops |-> << Op("insert", filePath, TRUE) >> \o delOps \o << Op("ledger", filePath, TRUE) >>,
             thrown |-> FALSE]

\* mutant: a failed insert also drops the file's ledger entry
UpdateBody_ForgetOnInsertFail(filePath, vs, fm, content, currentHash, currentTimestamp, fail) ==
    LET inLedger  == filePath \in DOMAIN fm
        delOps    == IF inLedger THEN << Op("delete", filePath, fail # "delete") >> ELSE << >>
        afterDel  == IF inLedger THEN DeleteIds(vs, filePath) ELSE vs
    IN  IF fail = "read" THEN
            [vectorStore |-> vs, fileMetadata |-> fm, ops |-> << >>, thrown |-> TRUE]
        ELSE IF inLedger /\ fail = "delete" THEN
            [vectorStore |-> vs, fileMetadata |-> fm, ops |-> delOps, thrown |-> TRUE]
        ELSE IF fail = "insert" THEN
            [vectorStore |-> afterDel,
             fileMetadata |-> [q \in DOMAIN fm \ {filePath} |-> fm[q]],
             ops |-> delOps \o << Op("insert", filePath, FALSE) >>, thrown |-> TRUE]
        ELSE
            [vectorStore |-> AddDocument(afterDel, filePath, content),
             fileMetadata |-> SetEntry(fm, filePath, currentHash, currentTimestamp),
             ops |-> delOps \o << Op("insert", filePath, TRUE), Op("ledger", filePath, TRUE) >>,
             thrown |-> FALSE]

\* mutant: the ledger entry is written before the insert is awaited
UpdateBody_LedgerFirst(filePath, vs, fm, content, currentHash, currentTimestamp, fail) ==
    LET inLedger  == filePath \in DOMAIN fm
        delOps    == IF inLedger THEN << Op("delete", filePath, fail # "delete") >> ELSE << >>
        afterDel  == IF inLedger THEN DeleteIds(vs, filePath) ELSE vs
    IN  IF fail = "read" THEN
            [vectorStore |-> vs, fileMetadata |-> fm, ops |-> << >>, thrown |-> TRUE]
        ELSE IF inLedger /\ fail = "delete" THEN
            [vectorStore |-> vs, fileMetadata |-> fm, ops |-> delOps, thrown |-> TRUE]
        ELSE IF fail = "insert" THEN
            [vectorStore |-> afterDel,
             fileMetadata |-> SetEntry(fm, filePath, currentHash, currentTimestamp),
             ops |-> delOps \o << Op("ledger", filePath, TRUE), Op("insert", filePath, FALSE) >>,
             thrown |-> TRUE]
        ELSE
            [vectorStore |-> AddDocument(afterDel, filePath, content),
             fileMetadata |-> SetEntry(fm, filePath, currentHash, currentTimestamp),
             ops |-> delOps \o << Op("ledger", filePath, TRUE), Op("insert", filePath, TRUE) >>,
             thrown |-> FALSE]

\* mutant: the index is written after every insert
UpdateBody_SaveEach(filePath, vs, fm, content, currentHash, currentTimestamp, fail) ==
    LET inLedger  == filePath \in DOMAIN fm
        delOps    == IF inLedger THEN << Op("delete", filePath, fail # "delete") >> ELSE << >>
        afterDel  == IF inLedger THEN DeleteIds(vs, filePath) ELSE vs
    IN  IF fail = "read" THEN
            [vectorStore |-> vs, fileMetadata |-> fm, ops |-> << >>, thrown |-> TRUE]
        ELSE IF inLedger /\ fail = "delete" THEN
            [vectorStore |-> vs, fileMetadata |-> fm, ops |-> delOps, thrown |-> TRUE]
        ELSE IF fail = "insert" THEN
            [vectorStore |-> afterDel, fileMetadata |-> fm,
             ops |-> delOps \o << Op("insert", filePath, FALSE) >>, thrown |-> TRUE]
        ELSE
            [vectorStore |-> AddDocument(afterDel, filePath, content),
             fileMetadata |-> SetEntry(fm, filePath, currentHash, currentTimestamp),
             ops |-> delOps \o << Op("insert", filePath, TRUE), Op("save", IndexDir, TRUE),
                               Op("ledger", filePath, TRUE) >>,
             thrown |-> FALSE]

\* the calls of the if body, in program order, up to the first one that throws
UpdateBody(filePath, vs, fm, content, currentHash, currentTimestamp, fail) ==
    LET inLedger  == filePath \in DOMAIN fm
        delOps    == IF inLedger THEN << Op("delete", filePath, fail # "delete") >> ELSE << >>
        afterDel  == IF inLedger THEN DeleteIds(vs, filePath) ELSE vs
    IN  IF fail = "read" THEN
            [vectorStore |-> vs, fileMetadata |-> fm, ops |-> << >>, thrown |-> TRUE]
        ELSE IF inLedger /\ fail = "delete" THEN
            [vectorStore |-> vs, fileMetadata |-> fm, ops |-> delOps, thrown |-> TRUE]
        ELSE IF fail = "insert" THEN
            [vectorStore |-> afterDel, fileMetadata |-> fm,
             ops |-> delOps \o << Op("insert", filePath, FALSE) >>, thrown |-> TRUE]
        ELSE
            [vectorStore |-> AddDocument(afterDel, filePath, content),
             fileMetadata |-> SetEntry(fm, filePath, currentHash, currentTimestamp),
             ops |-> delOps \o << Op("insert", filePath, TRUE), Op("ledger", filePath, TRUE) >>,
             thrown |-> FALSE]

\* the try block: stat, hash, then the if statement
TryBody(filePath, vs, fm, force, content, mtime, fail) ==
    LET currentHash == getFileHash(content)
    IN  IF fail \in {"stat", "hash"} THEN
            [vectorStore |-> vs, fileMetadata |-> fm, ops |-> << >>, thrown |-> TRUE]
        ELSE IF NeedsUpdate(fm, filePath, currentHash, force) THEN
            UpdateBody(filePath, vs, fm, content, currentHash, mtime, fail)
        ELSE
            [vectorStore |-> vs, fileMetadata |-> fm, ops |-> << >>, thrown |-> FALSE]

\* mutant: the catch block logs the error and throws it again
Catch_Rethrow(r) ==
    [vectorStore |-> r.vectorStore, fileMetadata |-> r.fileMetadata, ops |-> r.ops,
     logged |-> r.thrown, thrown |-> r.thrown]

\* the catch block: logs the error and swallows it
Catch(r) ==
    [vectorStore |-> r.vectorStore, fileMetadata |-> r.fileMetadata, ops |-> r.ops,
     logged |-> r.thrown, thrown |-> FALSE]

\* updateVectorDB(filePath, vectorStore, embeddings, fileMetadata, forceUpdate): the store
\* and the ledger it leaves, the calls it issued, whether it logged an error, whether it threw
updateVectorDB(filePath, vs, fm, force, content, mtime, fail) ==
    Catch(TryBody(filePath, vs, fm, force, content, mtime, fail))

----------------------------------------------------------------------------
(* The options of a run: the API key and the index path *)

\* an API key as far as the checks look at it: leading whitespace, the characters
\* between the first and the last non-blank one, trailing whitespace
Str(lead, core, trail) == [defined |-> TRUE, lead |-> lead, core |-> core, trail |-> trail]

\* undefined: the option was not given, the environment variable is not set
NoKey == [defined |-> FALSE, lead |-> 0, core |-> 0, trail |-> 0]

\* apiKey.length
Length(k) == k.lead + k.core + k.trail

\* apiKey.trim()
Trim(k) == [k EXCEPT !.lead = 0, !.trail = 0]

\* JavaScript truthiness of a string or undefined
Truthy(k) == k.defined /\ Length(k) > 0

\* options.openaiApiKey || process.env.OPENAI_API_KEY
ResolveKey(optKey, envKey) == IF Truthy(optKey) THEN optKey ELSE envKey

\* the comparison of validateOpenAIApiKey: length > 20
MinKeyLength == 20

\* mutant: the length is taken without trimming
validateOpenAIApiKey_NoTrim(apiKey) ==
    Truthy(apiKey) /\ Length(apiKey) > MinKeyLength

\* validateOpenAIApiKey: apiKey && apiKey.trim().length > 20
validateOpenAIApiKey(apiKey) ==
    Truthy(apiKey) /\ Length(Trim(apiKey)) > MinKeyLength

\* the key of the test suite, 'test-api-key-with-sufficient-length'
TestKeyLength == 35
TestKey == Str(0, TestKeyLength, 0)

\* options.vectorStorePath is absent: the index lives at cwd/repomix-vector.faiss
DefaultPath == [explicit |-> FALSE, parentWritable |-> TRUE]

\* validateVectorStorePath: true iff fs.access(dirname, W_OK) resolves
validateVectorStorePath(path) == path.parentWritable

\* mutant: the parent directory is checked for the default path too
PathAccepted_Always(path) == validateVectorStorePath(path)

\* if (options.vectorStorePath) { validate }: only an explicit path is checked
PathAccepted(path) == path.explicit => validateVectorStorePath(path)

----------------------------------------------------------------------------
(* Initial state: a working directory that has never been indexed *)

Idle ==
    /\ pc = "idle"
    /\ forceUpdate = FALSE
    /\ vectorStore = EmptyBag
    /\ fileMetadata = EmptyLedger
    /\ listOfFiles = << >>
    /\ idx = 0
    /\ ops = << >>
    /\ logged = {}
    /\ error = "none"
    /\ repeat = FALSE
    /\ openAIApiKey = NoKey
    /\ vectorIndexPath = DefaultPath
    /\ searched = NoSearch
    /\ printed = << >>

Init ==
    /\ files \in [UserFiles -> {NoFile} \cup [content : 1..MaxVersion, mtime : {1}]]
    /\ diskMeta = NoMeta
    /\ diskIndex = NoIndex
    /\ Idle
    /\ events = 0
    /\ quiet = FALSE
    /\ interrupted = FALSE
    /\ metadata = EmptyLedger

----------------------------------------------------------------------------
(* The environment: the user edits the working directory between runs *)

\* a file is created, rewritten or touched
WriteFile(p, c, t) ==
    /\ pc = "idle"
    /\ events < MaxEvents
    /\ events' = events + 1
    /\ files[p] # [content |-> c, mtime |-> t]
    /\ files' = [files EXCEPT ![p] = [content |-> c, mtime |-> t]]
    /\ quiet' = FALSE
    /\ UNCHANGED << diskMeta, diskIndex, runVars, interrupted, metadata, searched, printed >>

\* a file is removed, between runs or between the listing and its processing
\* (removing a file the loop is already past has the effect of removing it after the run)
RemoveFile(p) ==
    /\ \/ pc = "idle"
       \/ pc = "loop" /\ \E i \in idx..Len(listOfFiles) : listOfFiles[i] = p
    /\ events < MaxEvents
    /\ events' = events + 1
    /\ files[p] # NoFile
    /\ files' = [files EXCEPT ![p] = NoFile]
    /\ quiet' = FALSE
    /\ repeat' = FALSE
    /\ UNCHANGED << diskMeta, diskIndex, pc, forceUpdate, vectorStore, fileMetadata,
                    listOfFiles, idx, ops, logged, error,
                    openAIApiKey, vectorIndexPath, interrupted, metadata, searched, printed >>

\* the ledger file is damaged: it no longer holds valid JSON
CorruptLedger ==
    /\ pc = "idle"
    /\ events < MaxEvents
    /\ events' = events + 1
    /\ diskMeta.kind = "json"
    /\ diskMeta' = [diskMeta EXCEPT !.kind = "corrupt", !.text = << >>, !.ver = @ + 1]
    /\ quiet' = FALSE
    /\ UNCHANGED << files, diskIndex, runVars, interrupted, metadata, searched, printed >>

\* the persisted index is damaged: FaissStore.load will throw
CorruptIndex ==
    /\ pc = "idle"
    /\ events < MaxEvents
    /\ events' = events + 1
    /\ diskIndex.kind = "ok"
    /\ diskIndex' = [kind |-> "corrupt", docs |-> EmptyBag]
    /\ quiet' = FALSE
    /\ UNCHANGED << files, diskMeta, runVars, interrupted, metadata, searched, printed >>

----------------------------------------------------------------------------
(* runSearchAction *)

\* mutant: every run starts from an empty ledger
ForceClear_Always(fm, force) == EmptyLedger

\* mutant: the force flag leaves the loaded ledger in place
ForceClear_Keep(fm, force) == fm

\* if (options.forceUpdateVector) fileMetadata = {}
ForceClear(fm, force) == IF force THEN EmptyLedger ELSE fm

\* mutant: a failing FaissStore.load rejects the run
OpenResult_Propagate(index) ==
    IF index.kind = "ok"
        THEN [store |-> index.docs, ops |-> << Op("load", IndexDir, TRUE) >>, thrown |-> FALSE]
        ELSE [store |-> EmptyBag, ops |-> << Op("load", IndexDir, FALSE) >>, thrown |-> TRUE]

\* try { FaissStore.load } catch { FaissStore.fromTexts([], [], embeddings) }
OpenResult(index) ==
    IF index.kind = "ok"
        THEN [store |-> OpenStore(index), ops |-> << Op("load", IndexDir, TRUE) >>,
              thrown |-> FALSE]
        ELSE [store |-> OpenStore(index),
              ops |-> << Op("load", IndexDir, FALSE), Op("fromTexts", IndexDir, TRUE) >>,
              thrown |-> FALSE]

\* runSearchAction from its entry to the directory listing: resolve and check the API key,
\* check an explicit index path, open or create the store, load the ledger, clear it
\* under force, list the working directory
Begin(force, optKey, envKey, path) ==
    /\ pc = "idle"
    /\ events < MaxEvents
    /\ events' = events + 1
    /\ openAIApiKey' = ResolveKey(optKey, envKey)
    /\ vectorIndexPath' = path
    /\ LET key    == ResolveKey(optKey, envKey)
           refuse == IF ~Truthy(key) THEN "keyRequired"
                     ELSE IF ~validateOpenAIApiKey(key) THEN "keyInvalid"
                     ELSE IF ~PathAccepted(path) THEN "path"
                     ELSE "none"
           opened == OpenResult(diskIndex)
           loaded == LoadResult(diskMeta)
       IN  IF refuse # "none" THEN
               \* logger.error and return
               /\ pc' = "refused"
               /\ error' = refuse
               /\ forceUpdate' = force
               /\ repeat' = FALSE
               /\ quiet' = quiet
               /\ UNCHANGED << vectorStore, fileMetadata, listOfFiles, idx, ops, logged >>
           ELSE IF opened.thrown THEN
               /\ pc' = "rejected"
               /\ error' = "load"
               /\ forceUpdate' = force
               /\ ops' = opened.ops
               /\ repeat' = quiet
               /\ quiet' = FALSE
               /\ UNCHANGED << vectorStore, fileMetadata, listOfFiles, idx, logged >>
           ELSE IF loaded.thrown THEN
               /\ pc' = "rejected"
               /\ error' = "loadMeta"
               /\ forceUpdate' = force
               /\ vectorStore' = opened.store
               /\ ops' = opened.ops \o << Op("loadMeta", MetaFile, FALSE) >>
               /\ repeat' = quiet
               /\ quiet' = FALSE
               /\ UNCHANGED << fileMetadata, listOfFiles, idx, logged >>
           ELSE
               /\ pc' = "loop"
               /\ error' = "none"
               /\ forceUpdate' = force
               /\ vectorStore' = opened.store
               /\ fileMetadata' = ForceClear(loaded.value, force)
               /\ listOfFiles' = ReadDir
               /\ idx' = 1
               /\ ops' = opened.ops \o
                         << Op("loadMeta", MetaFile, TRUE), Op("readdir", ".", TRUE) >>
               /\ logged' = {}
               /\ repeat' = quiet
               /\ quiet' = FALSE
    /\ UNCHANGED << files, diskMeta, diskIndex, interrupted, metadata, searched, printed >>

\* a run whose API key is accepted and whose index path is the default one
StartRun(force) == Begin(force, TestKey, NoKey, DefaultPath)

\* mutant: the listing is walked from its end
FileAt_Reverse(list, i) == list[Len(list) + 1 - i]

\* for (const file of listOfFiles): the entry of the i-th iteration
FileAt(list, i) == list[i]

\* one iteration of the for loop over listOfFiles
VisitFile(fail) ==
    /\ pc = "loop"
    /\ idx <= Len(listOfFiles)
    /\ fail # "none" => events < MaxEvents
    /\ LET filePath == FileAt(listOfFiles, idx)
       IN  IF ~Exists(filePath) THEN
               \* fs.stat(filePath) rejects outside any try block
               /\ pc' = "rejected"
               /\ error' = "stat"
               /\ UNCHANGED << vectorStore, fileMetadata, idx, ops, logged, events >>
           ELSE IF ~IsFile(filePath) THEN
               /\ idx' = idx + 1
               /\ UNCHANGED << pc, error, vectorStore, fileMetadata, ops, logged, events >>
           ELSE
               LET r == updateVectorDB(filePath, vectorStore, fileMetadata, forceUpdate,
                                       FileContent(filePath), FileMtime(filePath), fail)
               IN  /\ vectorStore' = r.vectorStore
                   /\ fileMetadata' = r.fileMetadata
                   /\ ops' = ops \o r.ops
                   /\ logged' = IF r.logged THEN logged \cup {filePath} ELSE logged
                   /\ events' = IF r.logged \/ r.thrown THEN events + 1 ELSE events
                   /\ IF r.thrown
                        THEN pc' = "rejected" /\ error' = "file" /\ idx' = idx
                        ELSE pc' = pc /\ error' = error /\ idx' = idx + 1
    /\ UNCHANGED << files, diskMeta, diskIndex, forceUpdate, listOfFiles, quiet, repeat,
                    openAIApiKey, vectorIndexPath, interrupted, metadata, searched, printed >>

\* await vectorStore.save(vectorIndexPath), after the loop
SaveIndex(ok) ==
    /\ pc = "loop"
    /\ idx > Len(listOfFiles)
    /\ ~ok => events < MaxEvents
    /\ events' = IF ok THEN events ELSE events + 1
    /\ ops' = Append(ops, Op("save", IndexDir, ok))
    /\ IF ok THEN /\ diskIndex' = [kind |-> "ok", docs |-> vectorStore]
                  /\ pc' = "saveMeta"
                  /\ error' = error
             ELSE /\ diskIndex' = diskIndex
                  /\ pc' = "rejected"
                  /\ error' = "save"
    /\ UNCHANGED << files, diskMeta, forceUpdate, vectorStore, fileMetadata, listOfFiles,
                    idx, logged, quiet, repeat,
                    openAIApiKey, vectorIndexPath, interrupted, metadata, searched, printed >>

\* mutant: a failed write of the ledger is logged and the run goes on to the query
SaveMeta_Swallow(ok) ==
    /\ pc = "saveMeta"
    /\ ~ok => events < MaxEvents
    /\ events' = IF ok THEN events ELSE events + 1
    /\ ops' = Append(ops, Op("saveMeta", MetaFile, ok))
    /\ diskMeta' = IF ok THEN saveFileMetadata(diskMeta, fileMetadata, events) ELSE diskMeta
    /\ pc' = "query"
    /\ error' = error
    /\ UNCHANGED << files, diskIndex, forceUpdate, vectorStore, fileMetadata, listOfFiles,
                    idx, logged, quiet, repeat,
                    openAIApiKey, vectorIndexPath, interrupted, metadata, searched, printed >>

\* await saveFileMetadata(metadataPath, fileMetadata)
SaveMeta(ok) ==
    /\ pc = "saveMeta"
    /\ ~ok => events < MaxEvents
    /\ events' = IF ok THEN events ELSE events + 1
    /\ ops' = Append(ops, Op("saveMeta", MetaFile, ok))
    /\ IF ok THEN /\ diskMeta' = saveFileMetadata(diskMeta, fileMetadata, events)
                  /\ pc' = "query"
                  /\ error' = error
             ELSE /\ diskMeta' = diskMeta
                  /\ pc' = "rejected"
                  /\ error' = "saveMeta"
    /\ UNCHANGED << files, diskIndex, forceUpdate, vectorStore, fileMetadata, listOfFiles,
                    idx, logged, quiet, repeat,
                    openAIApiKey, vectorIndexPath, interrupted, metadata, searched, printed >>

\* mutant: the query is issued as soon as the index is written, before the ledger is
Query_BeforeLedger(ok) ==
    /\ pc = "saveMeta"
    /\ ~ok => events < MaxEvents
    /\ events' = IF ok THEN events ELSE events + 1
    /\ ops' = Append(ops, Op("query", IndexDir, ok))
    /\ pc' = IF ok THEN "done" ELSE "rejected"
    /\ error' = IF ok THEN error ELSE "query"
    /\ UNCHANGED << files, diskMeta, diskIndex, forceUpdate, vectorStore, fileMetadata,
                    listOfFiles, idx, logged, quiet, repeat,
                    openAIApiKey, vectorIndexPath, interrupted, metadata, searched, printed >>

\* vectorStore.similaritySearch(searchQuery, 5) answering with results, and the printing
\* of the results
Search(ok, results) ==
    /\ pc = "query"
    /\ ~ok => events < MaxEvents
    /\ events' = IF ok THEN events ELSE events + 1
    /\ ops' = Append(ops, Op("query", IndexDir, ok))
    /\ pc' = IF ok THEN "done" ELSE "rejected"
    /\ error' = IF ok THEN error ELSE "query"
    /\ searched' = [k |-> K, docs |-> IF ok THEN results ELSE << >>]
    /\ printed' = IF ok THEN PrintResults(results) ELSE << >>
    /\ UNCHANGED << files, diskMeta, diskIndex, forceUpdate, vectorStore, fileMetadata,
                    listOfFiles, idx, logged, quiet, repeat,
                    openAIApiKey, vectorIndexPath, interrupted, metadata >>

\* the query of the run and the printing of its results
Query(ok) == Search(ok, similaritySearch(vectorStore, K))

\* the promise of runSearchAction settles and the process ends
Return ==
    /\ pc \in {"done", "rejected", "refused"}
    /\ quiet' = IF pc = "refused" THEN quiet ELSE (pc = "done" /\ logged = {} /\ ~forceUpdate)
    /\ pc' = "idle"
    /\ forceUpdate' = FALSE
    /\ vectorStore' = EmptyBag
    /\ fileMetadata' = EmptyLedger
    /\ listOfFiles' = << >>
    /\ idx' = 0
    /\ ops' = << >>
    /\ logged' = {}
    /\ error' = "none"
    /\ repeat' = FALSE
    /\ openAIApiKey' = NoKey
    /\ vectorIndexPath' = DefaultPath
    /\ interrupted' = FALSE
    /\ searched' = NoSearch
    /\ printed' = << >>
    /\ UNCHANGED << files, diskMeta, diskIndex, events, metadata >>

Next ==
    \/ \E p \in UserFiles, c \in 1..MaxVersion, t \in 1..MaxVersion : WriteFile(p, c, t)
    \/ \E p \in UserFiles : RemoveFile(p)
    \/ CorruptLedger
    \/ CorruptIndex
    \/ \E force \in BOOLEAN : StartRun(force)
    \/ \E fail \in FailPoints : VisitFile(fail)
    \/ \E ok \in BOOLEAN : SaveIndex(ok)
    \/ \E ok \in BOOLEAN : SaveMeta(ok)
    \/ \E ok \in BOOLEAN : Query(ok)
    \/ Return

Spec == Init /\ [][Next]_vars

\* the behaviours in which writing the index, writing the ledger and the query never throw
NextPersistOk ==
    \/ \E p \in UserFiles, c \in 1..MaxVersion, t \in 1..MaxVersion : WriteFile(p, c, t)
    \/ \E p \in UserFiles : RemoveFile(p)
    \/ CorruptLedger
    \/ CorruptIndex
    \/ \E force \in BOOLEAN : StartRun(force)
    \/ \E fail \in FailPoints : VisitFile(fail)
    \/ SaveIndex(TRUE)
    \/ SaveMeta(TRUE)
    \/ Query(TRUE)
    \/ Return

SpecPersistOk == Init /\ [][NextPersistOk]_vars

\* the process is killed while a run is in progress: the in-memory store and ledger are
\* lost, the working directory keeps what was written so far
Interrupt ==
    /\ pc \in {"loop", "saveMeta", "query"}
    /\ events < MaxEvents
    /\ events' = events + 1
    /\ interrupted' = TRUE
    /\ pc' = "idle"
    /\ forceUpdate' = FALSE
    /\ vectorStore' = EmptyBag
    /\ fileMetadata' = EmptyLedger
    /\ listOfFiles' = << >>
    /\ idx' = 0
    /\ ops' = << >>
    /\ logged' = {}
    /\ error' = "none"
    /\ repeat' = FALSE
    /\ openAIApiKey' = NoKey
    /\ vectorIndexPath' = DefaultPath
    /\ quiet' = FALSE
    /\ searched' = NoSearch
    /\ printed' = << >>
    /\ UNCHANGED << files, diskMeta, diskIndex, metadata >>

\* the behaviours in which no call throws and no file disappears, the user edits files
\* between runs, and a run can be killed at any point
NextInterrupt ==
    \/ \E p \in UserFiles, c \in 1..MaxVersion, t \in 1..MaxVersion : WriteFile(p, c, t)
    \/ \E force \in BOOLEAN : StartRun(force)
    \/ VisitFile("none")
    \/ SaveIndex(TRUE)
    \/ SaveMeta(TRUE)
    \/ Query(TRUE)
    \/ Return
    \/ Interrupt

SpecInterrupt == Init /\ [][NextInterrupt]_vars

\* the ledgers a caller can hand to saveFileMetadata: any set of paths, each with a hash
\* and a timestamp
Ledgers ==
    UNION {[S -> [hash : {getFileHash(<< "text", c >>) : c \in 1..MaxVersion},
                  timestamp : 1..MaxVersion]] : S \in SUBSET Paths}

\* what can be at the ledger path before a call: nothing, not even the parent directory,
\* text that is not JSON, a file that cannot be read, or an earlier ledger
LedgerFiles ==
    {NoMeta,
     [kind |-> "nodir", text |-> << >>, ver |-> 0, mtime |-> 0],
     [kind |-> "corrupt", text |-> << >>, ver |-> 1, mtime |-> 1],
     [kind |-> "unreadable", text |-> << >>, ver |-> 1, mtime |-> 1],
     [kind |-> "json", text |-> Stringify(EmptyLedger), ver |-> 1, mtime |-> 1]}

\* a caller of the metadata manager about to load or save
InitLedger ==
    /\ files = [p \in UserFiles |-> NoFile]
    /\ diskMeta \in LedgerFiles
    /\ diskIndex = NoIndex
    /\ metadata \in Ledgers
    /\ pc = "caller"
    /\ forceUpdate = FALSE
    /\ vectorStore = EmptyBag
    /\ fileMetadata = EmptyLedger
    /\ listOfFiles = << >>
    /\ idx = 0
    /\ ops = << >>
    /\ logged = {}
    /\ error = "none"
    /\ repeat = FALSE
    /\ openAIApiKey = NoKey
    /\ vectorIndexPath = DefaultPath
    /\ events = 0
    /\ quiet = FALSE
    /\ interrupted = FALSE
    /\ searched = NoSearch
    /\ printed = << >>

\* await saveFileMetadata(metadataPath, metadata): mkdir resolves with the directory it
\* had to create (none when the parent exists), writeFile writes or throws, and the
\* catch block throws the error again
SaveLedger(ok) ==
    /\ pc = "caller"
    /\ ops' = ops \o << Op("mkdir", IF diskMeta.kind = "nodir" THEN "created" ELSE "", TRUE),
                         Op("writeFile", MetaFile, ok) >>
    /\ IF ok THEN /\ diskMeta' = saveFileMetadata(diskMeta, metadata, 1)
                  /\ pc' = "saved"
                  /\ error' = error
             ELSE /\ diskMeta' = diskMeta
                  /\ pc' = "rejected"
                  /\ error' = "saveMeta"
    /\ UNCHANGED << files, diskIndex, forceUpdate, vectorStore, fileMetadata, listOfFiles,
                    idx, logged, events, quiet, repeat, openAIApiKey, vectorIndexPath,
                    interrupted, metadata, searched, printed >>

\* const loaded = await loadFileMetadata(metadataPath), first thing or after a save
LoadLedger ==
    /\ pc \in {"caller", "saved"}
    /\ ops' = Append(ops, Op("loadMeta", MetaFile, ~LoadResult(diskMeta).thrown))
    /\ fileMetadata' = LoadResult(diskMeta).value
    /\ pc' = IF LoadResult(diskMeta).thrown THEN "rejected" ELSE "loaded"
    /\ error' = IF LoadResult(diskMeta).thrown THEN "loadMeta" ELSE error
    /\ UNCHANGED << files, diskMeta, diskIndex, forceUpdate, vectorStore, listOfFiles,
                    idx, logged, events, quiet, repeat, openAIApiKey, vectorIndexPath,
                    interrupted, metadata, searched, printed >>

NextLedger ==
    \/ \E ok \in BOOLEAN : SaveLedger(ok)
    \/ LoadLedger

SpecLedger == InitLedger /\ [][NextLedger]_vars

\* documents whose text is one character shorter than, as long as and one character
\* longer than a snippet
SampleDocs ==
    {Doc(p, << "chars", n >>) :
        p \in UserFiles, n \in {SnippetLength - 1, SnippetLength, SnippetLength + 1}}

\* an empty working directory next to an index that earlier runs filled
InitQuery ==
    /\ files = [p \in UserFiles |-> NoFile]
    /\ diskMeta = NoMeta
    /\ diskIndex \in {[kind |-> "ok", docs |-> SetToBag(S)] : S \in SUBSET SampleDocs}
    /\ Idle
    /\ events = 0
    /\ quiet = FALSE
    /\ interrupted = FALSE
    /\ metadata = EmptyLedger

\* runs without force in which no call throws and the store may rank its documents in
\* any order
NextQuery ==
    \/ events < MaxOptionEvents /\ StartRun(FALSE)
    \/ VisitFile("none")
    \/ SaveIndex(TRUE)
    \/ SaveMeta(TRUE)
    \/ \E results \in Rankings(vectorStore, K) : Search(TRUE, results)
    \/ Return

SpecQuery == InitQuery /\ [][NextQuery]_vars

\* the API keys a caller or the environment can supply: none, the empty string, blanks
\* only, and keys whose trimmed length is just below, at and just above the threshold
KeyValues ==
    {NoKey} \cup
    {Str(l, c, t) : l \in 0..MaxPad, t \in 0..MaxPad,
                    c \in {0, MinKeyLength - 1, MinKeyLength, MinKeyLength + 1}}

\* options.vectorStorePath given or not, and whether fs.access(dirname, W_OK) resolves
PathOptions == [explicit : BOOLEAN, parentWritable : BOOLEAN]

\* a working directory with two files that has never been indexed
InitOptions ==
    /\ Init
    /\ files = [p \in UserFiles |-> [content |-> 1, mtime |-> 1]]

\* the behaviours over every combination of API key and index path, in a directory the
\* user leaves alone; the index can be written iff its directory is writable
NextOptions ==
    \/ \E force \in BOOLEAN, optKey \in KeyValues, envKey \in KeyValues, path \in PathOptions :
          /\ events < MaxOptionEvents
          /\ Begin(force, optKey, envKey, path)
    \/ VisitFile("none")
    \/ SaveIndex(vectorIndexPath.parentWritable)
    \/ SaveMeta(TRUE)
    \/ Query(TRUE)
    \/ Return

SpecOptions == InitOptions /\ [][NextOptions]_vars

----------------------------------------------------------------------------
(* searchAction: load the configuration, filter the files, create a vector per file *)

\* the answers globby can give: any selection of the paths, in any order, each once
FilterResults ==
    {seq \in UNION {[1..n -> Paths] : n \in 0..Cardinality(Paths)} :
        \A i, j \in 1..Len(seq) : i # j => seq[i] # seq[j]}

\* searchAction has been called and its spinner started
InitSearch ==
    /\ files = [p \in UserFiles |-> [content |-> 1, mtime |-> 1]]
    /\ diskMeta = NoMeta
    /\ diskIndex = NoIndex
    /\ metadata = EmptyLedger
    /\ pc = "config"
    /\ forceUpdate = FALSE
    /\ vectorStore = EmptyBag
    /\ fileMetadata = EmptyLedger
    /\ listOfFiles = << >>
    /\ idx = 0
    /\ ops = << >>
    /\ logged = {}
    /\ error = "none"
    /\ repeat = FALSE
    /\ openAIApiKey = NoKey
    /\ vectorIndexPath = DefaultPath
    /\ events = 0
    /\ quiet = FALSE
    /\ interrupted = FALSE
    /\ searched = NoSearch
    /\ printed = << >>

\* what the steps of searchAction leave alone
searchFrame ==
    << files, diskMeta, diskIndex, forceUpdate, vectorStore, fileMetadata, logged, events,
       quiet, repeat, openAIApiKey, vectorIndexPath, interrupted, metadata, searched, printed >>

\* the points of loadAndParseOptions at which a call can throw
ConfigFailPoints == {"none", "loadFileConfig", "mergeConfigs"}

\* mutant: a failure to load the configuration is logged and the action goes on
LoadAndParseOptions_Swallow(fail) ==
    /\ pc = "config"
    /\ ops' = IF fail = "loadFileConfig"
                 THEN Append(ops, Op("loadFileConfig", "cwd", FALSE))
                 ELSE ops \o << Op("loadFileConfig", "cwd", TRUE),
                                Op("mergeConfigs", "cwd", fail = "none") >>
    /\ pc' = "filter"
    /\ error' = error
    /\ UNCHANGED << listOfFiles, idx, searchFrame >>

\* const { config } = await loadAndParseOptions(directory, cwd, options): both catch blocks
\* on the way out throw the error they caught
LoadAndParseOptions(fail) ==
    /\ pc = "config"
    /\ ops' = IF fail = "loadFileConfig"
                 THEN Append(ops, Op("loadFileConfig", "cwd", FALSE))
                 ELSE ops \o << Op("loadFileConfig", "cwd", TRUE),
                                Op("mergeConfigs", "cwd", fail = "none") >>
    /\ pc' = IF fail = "none" THEN "filter" ELSE "rejected"
    /\ error' = IF fail = "none" THEN error ELSE fail
    /\ UNCHANGED << listOfFiles, idx, searchFrame >>

\* const files = await filterFiles(targetPath, config)
FilterFiles(ok, result) ==
    /\ pc = "filter"
    /\ ops' = Append(ops, Op("globby", "targetPath", ok))
    /\ listOfFiles' = IF ok THEN result ELSE listOfFiles
    /\ idx' = IF ok THEN 1 ELSE idx
    /\ pc' = IF ok THEN "vectors" ELSE "rejected"
    /\ error' = IF ok THEN error ELSE "globby"
    /\ UNCHANGED searchFrame

\* the points of one iteration of createVectorsForFiles at which a call can throw
VectorFailPoints == {"none", "readFile", "createVector"}

\* mutant: a failure for one file is logged and the loop takes the next file
CreateVectorForFile_Continue(fail) ==
    /\ pc = "vectors"
    /\ idx <= Len(listOfFiles)
    /\ ops' = IF fail = "readFile"
                 THEN Append(ops, Op("readFile", listOfFiles[idx], FALSE))
                 ELSE ops \o << Op("readFile", listOfFiles[idx], TRUE),
                                Op("createVector", listOfFiles[idx], fail = "none") >>
    /\ pc' = pc
    /\ error' = error
    /\ idx' = idx + 1
    /\ UNCHANGED << listOfFiles, searchFrame >>

\* one iteration of the loop of createVectorsForFiles: read the file, create its vector;
\* a throw leaves the loop and the catch blocks on the way out throw it again
CreateVectorForFile(fail) ==
    /\ pc = "vectors"
    /\ idx <= Len(listOfFiles)
    /\ ops' = IF fail = "readFile"
                 THEN Append(ops, Op("readFile", listOfFiles[idx], FALSE))
                 ELSE ops \o << Op("readFile", listOfFiles[idx], TRUE),
                                Op("createVector", listOfFiles[idx], fail = "none") >>
    /\ pc' = IF fail = "none" THEN pc ELSE "rejected"
    /\ error' = IF fail = "none" THEN error ELSE fail
    /\ idx' = IF fail = "none" THEN idx + 1 ELSE idx
    /\ UNCHANGED << listOfFiles, searchFrame >>

\* the loop is over: spinner.succeed and the promise of searchAction resolves
SearchResolves ==
    /\ pc = "vectors"
    /\ idx > Len(listOfFiles)
    /\ pc' = "resolved"
    /\ UNCHANGED << ops, error, idx, listOfFiles, searchFrame >>

NextSearch ==
    \/ \E fail \in ConfigFailPoints : LoadAndParseOptions(fail)
    \/ \E ok \in BOOLEAN, result \in FilterResults : FilterFiles(ok, result)
    \/ \E fail \in VectorFailPoints : CreateVectorForFile(fail)
    \/ SearchResolves

SpecSearch == InitSearch /\ [][NextSearch]_vars

----------------------------------------------------------------------------
(* Vocabulary of the properties *)

\* the run is between the directory listing and the write of the ledger file:
\* the ledger file still holds what the run loaded
Syncing == pc \in {"loop", "saveMeta"}

\* the ledger the run in progress started its loop with
LoadedLedger == ForceClear(loadFileMetadata(diskMeta), forceUpdate)

\* the for loop has finished its iteration for p
Visited(p) == \E i \in 1..Len(listOfFiles) : listOfFiles[i] = p /\ i < idx

\* the per-file calls the run has issued for p, in order
OpsOf(p) == SelectSeq(ops, LAMBDA o : o.path = p /\ o.op \in {"delete", "insert", "ledger"})

\* the names of those calls
OpNames(seq) == [i \in 1..Len(seq) |-> seq[i].op]

CurrentHash(p) == getFileHash(FileContent(p))

\* p was in the ledger the loop started with, under a hash other than its current one
ModifiedAtStart(p) ==
    /\ Exists(p)
    /\ p \in DOMAIN LoadedLedger
    /\ LoadedLedger[p].hash # CurrentHash(p)

----------------------------------------------------------------------------
(* C1: a file created since the last run (absent from the loaded ledger, no force
   flag) gets exactly one insert, no delete, and one ledger entry in the next run.
   The code does not do this: the condition of updateVectorDB is false for a path
   that is not in the ledger, so TLC finds this invariant violated. *)
C1_NewFileInserted ==
    (Syncing /\ ~forceUpdate) =>
        \A p \in UserFiles :
            (Visited(p) /\ Exists(p) /\ p \notin DOMAIN LoadedLedger /\ p \notin logged) =>
                /\ OpNames(OpsOf(p)) = << "insert", "ledger" >>
                /\ p \in DOMAIN fileMetadata

----------------------------------------------------------------------------
(* C2: in a run without the force flag, a file whose current hash equals the hash
   in the ledger gets no insert and no delete, and its ledger entry (hash and
   timestamp) stays what was loaded, also when its modification time differs from
   the recorded timestamp. *)
C2_UnchangedFileSkipped ==
    (Syncing /\ ~forceUpdate) =>
        \A p \in Paths :
            (Exists(p) /\ p \in DOMAIN LoadedLedger /\ LoadedLedger[p].hash = CurrentHash(p)) =>
                /\ OpsOf(p) = << >>
                /\ p \in DOMAIN fileMetadata
                /\ fileMetadata[p] = LoadedLedger[p]

\* an unchanged file whose mtime is no longer the recorded timestamp has been visited
C2_Witness ==
    /\ Syncing /\ ~forceUpdate
    /\ \E p \in UserFiles :
          /\ Visited(p) /\ Exists(p) /\ p \notin logged
          /\ p \in DOMAIN LoadedLedger
          /\ LoadedLedger[p].hash = CurrentHash(p)
          /\ LoadedLedger[p].timestamp # FileMtime(p)

----------------------------------------------------------------------------
(* C3: a file that is in the ledger under a hash other than its current one gets,
   when none of its calls throws, exactly one delete, then exactly one insert, then
   the overwrite of its ledger entry with the current hash and modification time. *)
C3_ModifiedFileReplaced ==
    Syncing =>
        \A p \in Paths :
            (Visited(p) /\ ModifiedAtStart(p) /\ p \notin logged) =>
                /\ OpsOf(p) = << Op("delete", p, TRUE), Op("insert", p, TRUE), Op("ledger", p, TRUE) >>
                /\ p \in DOMAIN fileMetadata
                /\ fileMetadata[p] = [hash |-> CurrentHash(p), timestamp |-> FileMtime(p)]

\* a modified user file has been visited without an error
C3_Witness ==
    /\ Syncing
    /\ \E p \in UserFiles :
          /\ Visited(p) /\ ModifiedAtStart(p) /\ p \notin logged
          /\ LoadedLedger[p].timestamp # FileMtime(p)
          /\ Len(OpsOf(p)) = 3

----------------------------------------------------------------------------
(* C4: in a force run the ledger is empty before the first file is visited, so it
   only ever holds files this run has visited; no delete is issued for any path;
   and every regular file visited without an error got exactly one insert followed
   by its ledger entry, whatever the ledger file held. *)
C4_ForceRebuild ==
    (forceUpdate /\ pc # "idle") =>
        /\ \A i \in 1..Len(ops) : ops[i].op # "delete"
        /\ \A p \in DOMAIN fileMetadata : Visited(p)
        /\ \A p \in Paths :
              (Syncing /\ Visited(p) /\ Exists(p) /\ p \notin logged) =>
                  /\ OpsOf(p) = << Op("insert", p, TRUE), Op("ledger", p, TRUE) >>
                  /\ p \in DOMAIN fileMetadata

\* a force run over a ledger file that already lists a file has inserted that file
C4_Witness ==
    /\ forceUpdate /\ Syncing
    /\ \E p \in UserFiles :
          /\ p \in DOMAIN loadFileMetadata(diskMeta)
          /\ Visited(p) /\ Exists(p) /\ p \notin logged
          /\ Len(OpsOf(p)) = 2

----------------------------------------------------------------------------
(* C5: after every completed run a path is a key of the ledger if and only if the
   index holds a vector for that path.  The code does not maintain this: TLC finds
   the invariant violated. *)
C5_LedgerMatchesIndex ==
    pc = "done" =>
        \A p \in Paths :
            /\ p \in DOMAIN fileMetadata <=> VectorsOf(vectorStore, p) > 0
            /\ p \in DOMAIN loadFileMetadata(diskMeta) <=> VectorsOf(diskIndex.docs, p) > 0

----------------------------------------------------------------------------
(* C6: the index, in memory and on disk, holds at most one vector per file path.
   The code does not ensure this: TLC finds the invariant violated. *)
C6_OneVectorPerPath ==
    \A p \in Paths :
        /\ VectorsOf(vectorStore, p) <= 1
        /\ VectorsOf(diskIndex.docs, p) <= 1

----------------------------------------------------------------------------
(* C7: a run without force that repeats a completed, error-free run without
   force, with no change by the user in between, issues no insert and no delete,
   and reaches its persist step with the index and the ledger equal to what the
   first run left on disk.  The code does not do this: TLC finds the invariant
   violated. *)
C7_RepeatedRunIdle ==
    (repeat /\ ~forceUpdate /\ pc # "idle") =>
        /\ \A i \in 1..Len(ops) : ops[i].op \notin {"insert", "delete"}
        /\ (pc = "loop" /\ idx > Len(listOfFiles)) =>
               /\ vectorStore = diskIndex.docs
               /\ fileMetadata = loadFileMetadata(diskMeta)

----------------------------------------------------------------------------
(* C8: when a call inside updateVectorDB's per-file step throws, the ledger is left
   as it was and the loop moves on to the next file of the listing. *)
C8_Step ==
    (logged' # logged /\ logged' # {}) =>
        /\ fileMetadata' = fileMetadata
        /\ pc = "loop" /\ pc' = "loop"
        /\ idx' = idx + 1
        /\ error' = "none"

(* C8, as a property of behaviours: every step in which updateVectorDB logs an error
   satisfies C8_Step, and no run is ever rejected with a per-file error. *)
C8_PerFileFailureIsolated ==
    /\ [](pc = "rejected" => error # "file")
    /\ [][C8_Step]_vars

\* a run in which the first file failed has processed the second file, persisted and queried
C8_Witness ==
    /\ pc = "done"
    /\ "a.txt" \in logged
    /\ Len(OpsOf("b.txt")) > 0
    /\ ops[Len(ops)] = Op("query", IndexDir, TRUE)

----------------------------------------------------------------------------
(* C9: a file that disappears between the directory listing and its processing
   does not abort the run.  The code does abort: fs.stat in the loop of
   runSearchAction is outside any try block, and TLC finds the invariant violated. *)
C9_VanishedFileTolerated ==
    ~(pc = "rejected" /\ error = "stat")

----------------------------------------------------------------------------
(* C10 *)

\* the calls issued for p in this run are a delete that succeeded and an insert that threw
InsertFailedAfterDelete(p) ==
    OpsOf(p) = << Op("delete", p, TRUE), Op("insert", p, FALSE) >>

(* C10, as stated: a Modified file whose insert fails after its delete succeeded
   ends the run with no vector and no ledger entry, so the next run sees it as New. *)
C10_Original ==
    pc = "done" =>
        \A p \in Paths :
            InsertFailedAfterDelete(p) =>
                /\ VectorsOf(vectorStore, p) = 0
                /\ p \notin DOMAIN fileMetadata
                /\ p \notin DOMAIN loadFileMetadata(diskMeta)

(* C10, amended: a Modified file whose insert fails after its delete succeeded keeps
   its ledger entry as loaded (the old hash and timestamp), in memory and in the
   ledger file the run writes, so the next run without force classifies it as
   Modified again. *)
C10_EntryKeptOnInsertFailure ==
    \A p \in Paths :
        (pc # "idle" /\ InsertFailedAfterDelete(p)) =>
            /\ p \in DOMAIN fileMetadata
            /\ Syncing => fileMetadata[p] = LoadedLedger[p]
            /\ (pc = "done" /\ Exists(p)) =>
                   /\ p \in DOMAIN loadFileMetadata(diskMeta)
                   /\ loadFileMetadata(diskMeta)[p] = fileMetadata[p]
                   /\ NeedsUpdate(loadFileMetadata(diskMeta), p, CurrentHash(p), FALSE)

\* a run in which a modified user file's insert threw after its delete has completed
C10_Witness ==
    /\ pc = "done"
    /\ \E p \in UserFiles : InsertFailedAfterDelete(p) /\ Exists(p)

----------------------------------------------------------------------------
\* the phase a call belongs to: opening (0), per-file work (1), writing the index (2),
\* writing the ledger (3), the query (4)
Phase(name) ==
    IF name \in {"load", "fromTexts", "loadMeta", "readdir"} THEN 0
    ELSE IF name \in {"delete", "insert", "ledger"} THEN 1
    ELSE IF name = "save" THEN 2
    ELSE IF name = "saveMeta" THEN 3
    ELSE 4

(* C11: within one run every insert, delete and in-memory ledger update comes before
   the write of the index; the query is issued only after both the index and the
   ledger were written successfully, index first; and once the index is written the
   in-memory store, and once the ledger is written the in-memory ledger, are what is
   on disk: nothing mutates them after the persist or after the query. *)
C11_SyncThenPersistThenQuery ==
    /\ \A i, j \in 1..Len(ops) : i < j => Phase(ops[i].op) <= Phase(ops[j].op)
    /\ \A j \in 1..Len(ops) :
          ops[j].op = "query" =>
              \E i, k \in 1..(j - 1) :
                  /\ i < k
                  /\ ops[i] = Op("save", IndexDir, TRUE)
                  /\ ops[k] = Op("saveMeta", MetaFile, TRUE)
    /\ pc \in {"saveMeta", "query", "done"} =>
          diskIndex = [kind |-> "ok", docs |-> vectorStore]
    /\ pc \in {"query", "done"} => loadFileMetadata(diskMeta) = fileMetadata

\* a completed run that replaced a file's vector, wrote the index, wrote the ledger and queried
C11_Witness ==
    /\ pc = "done"
    /\ \E p \in UserFiles : OpNames(OpsOf(p)) = << "delete", "insert", "ledger" >>
    /\ Len(ops) >= 3
    /\ OpNames(SubSeq(ops, Len(ops) - 2, Len(ops))) = << "save", "saveMeta", "query" >>

----------------------------------------------------------------------------
\* the calls of vectorStore.save the run has issued
Saves == SelectSeq(ops, LAMBDA o : o.op = "save")

\* the successful inserts the run has issued
Inserts == SelectSeq(ops, LAMBDA o : o.op = "insert" /\ o.ok)

(* C12: a run that has left the per-file loop by its end has called vectorStore.save
   exactly once, and that call comes after every per-file call; while the loop is
   still running, or when the run was rejected inside it, save has not been called
   at all, however many files were inserted or replaced. *)
C12_SaveOncePerRun ==
    /\ (pc \in {"saveMeta", "query", "done"} \/ error \in {"save", "saveMeta", "query"}) =>
          /\ Len(Saves) = 1
          /\ \A i, j \in 1..Len(ops) :
                (ops[i].op = "save" /\ Phase(ops[j].op) = 1) => j < i
    /\ (pc = "loop" \/ error \in {"stat", "file"}) => Len(Saves) = 0

\* a run that inserted a document for each of two files and wrote the index once
C12_Witness ==
    /\ pc = "done"
    /\ Len(Inserts) = 2
    /\ Len(Saves) = 1
    /\ ops[Len(ops) - 2] = Op("save", IndexDir, TRUE)

----------------------------------------------------------------------------
\* the run has touched neither the index, nor the ledger, nor the directory, nor the store
NothingDone ==
    /\ ops = << >>
    /\ vectorStore = EmptyBag
    /\ fileMetadata = EmptyLedger
    /\ listOfFiles = << >>

\* the credential is present and has 21 or more characters after trimming
CredentialOk(k) == k.defined /\ Length(Trim(k)) >= MinKeyLength + 1

(* C13: a run is refused for its API key exactly when the key (the option value, else
   the environment value) is missing, empty after trimming or shorter than 21
   characters after trimming; a refused run has opened or created no index, loaded no
   ledger, listed no directory and issued no insert, delete, persist or query. *)
C13_CredentialGate ==
    pc # "idle" =>
        /\ (pc = "refused" /\ error \in {"keyRequired", "keyInvalid"})
               <=> ~CredentialOk(openAIApiKey)
        /\ pc = "refused" => NothingDone

\* a key of more than 20 characters that is too short once trimmed has been refused
C13_Witness ==
    /\ pc = "refused"
    /\ error = "keyInvalid"
    /\ Length(openAIApiKey) > MinKeyLength
    /\ Length(Trim(openAIApiKey)) = MinKeyLength

----------------------------------------------------------------------------
(* C14: a run whose API key is accepted is refused for its index path exactly when
   the caller gave an explicit path and the parent directory of that path is not
   writable; the default path is never checked.  The refused run has not tried to
   open or create the index and has read and written neither the index nor the
   ledger. *)
C14_PathGate ==
    pc # "idle" =>
        /\ (pc = "refused" /\ error = "path")
               <=> /\ CredentialOk(openAIApiKey)
                   /\ vectorIndexPath.explicit
                   /\ ~vectorIndexPath.parentWritable
        /\ (pc = "refused" /\ error = "path") =>
               /\ NothingDone
               /\ \A i \in 1..Len(ops) : ops[i].op \notin {"load", "fromTexts", "loadMeta"}

\* a run with a valid key and an explicit path into a read-only directory has been refused
C14_Witness ==
    /\ pc = "refused"
    /\ error = "path"
    /\ vectorIndexPath = [explicit |-> TRUE, parentWritable |-> FALSE]

\* a run with the default path in a read-only directory went on to the per-file loop
C14_DefaultPathUnchecked ==
    /\ pc = "loop"
    /\ vectorIndexPath = [explicit |-> FALSE, parentWritable |-> FALSE]

----------------------------------------------------------------------------
\* the persisted index holds a vector for p whose text is not the present text of p
StaleOnDisk(p) ==
    \E d \in DOMAIN diskIndex.docs :
        d.source = p /\ (~Exists(p) \/ d.content # FileContent(p))

(* C15: the run that follows an interrupted run, when it completes, leaves the ledger
   file and the persisted index in agreement (a path is a key of the ledger iff the
   index holds a vector for it), with at most one vector per user file and none
   whose text is out of date.  The code does not achieve this: TLC finds the
   invariant violated. *)
C15_RecoversAfterInterrupt ==
    (pc = "done" /\ interrupted) =>
        \A p \in UserFiles :
            /\ p \in DOMAIN loadFileMetadata(diskMeta) <=> VectorsOf(diskIndex.docs, p) > 0
            /\ VectorsOf(diskIndex.docs, p) <= 1
            /\ ~StaleOnDisk(p)

----------------------------------------------------------------------------
(* C16: loadFileMetadata never throws.  Whatever is at the ledger path, the call
   resolves, and when the file is missing, is not JSON or cannot be read, it
   resolves with the empty mapping. *)
C16_LoadNeverThrows ==
    /\ error # "loadMeta"
    /\ \A i \in 1..Len(ops) : ops[i].op = "loadMeta" => ops[i].ok
    /\ (pc = "loaded" /\ diskMeta.kind # "json") => fileMetadata = EmptyLedger

\* a ledger file holding text that is not JSON has been loaded
C16_Witness ==
    /\ pc = "loaded"
    /\ diskMeta.kind = "corrupt"
    /\ ops = << Op("loadMeta", MetaFile, TRUE) >>

\* a ledger file that could not be read has been loaded
C16_UnreadableLoaded ==
    /\ pc = "loaded"
    /\ diskMeta.kind = "unreadable"

----------------------------------------------------------------------------
(* C17: after saveFileMetadata(p, m) has resolved, loadFileMetadata(p) returns a
   mapping equal to m, for the empty mapping as for any other, whether or not the
   parent directory of p existed before the save. *)
C17_RoundTrip ==
    /\ pc = "saved" => loadFileMetadata(diskMeta) = metadata
    /\ (pc = "loaded" /\ Len(ops) = 3) => fileMetadata = metadata

\* a mapping with two entries was saved where no parent directory existed, and loaded
C17_Witness ==
    /\ pc = "loaded"
    /\ Len(ops) = 3
    /\ ops[1] = Op("mkdir", "created", TRUE)
    /\ Cardinality(DOMAIN metadata) = 2
    /\ fileMetadata = metadata

\* the empty mapping was saved and loaded
C17_EmptyRoundTrip ==
    /\ pc = "loaded"
    /\ Len(ops) = 3
    /\ metadata = EmptyLedger

----------------------------------------------------------------------------
(* C18: a failed write of the index or of the ledger is the last call of its run: the
   run is rejected with that error, after the per-file loop has visited every entry
   of the listing, and no similarity query is issued. *)
C18_PersistFailureFatal ==
    /\ \A i \in 1..Len(ops) :
          (ops[i].op \in {"save", "saveMeta"} /\ ~ops[i].ok) =>
              /\ i = Len(ops)
              /\ pc = "rejected"
              /\ error = ops[i].op
              /\ idx > Len(listOfFiles)
    /\ error \in {"save", "saveMeta"} =>
          /\ pc = "rejected"
          /\ \A i \in 1..Len(ops) : ops[i].op # "query"

\* a run that inserted a document and wrote the index was rejected by the ledger write
C18_Witness ==
    /\ pc = "rejected"
    /\ error = "saveMeta"
    /\ Len(Inserts) >= 1
    /\ ops[Len(ops)] = Op("saveMeta", MetaFile, FALSE)

\* a run was rejected by the index write
C18_IndexWriteRejected ==
    /\ pc = "rejected"
    /\ error = "save"
    /\ ops[Len(ops)] = Op("save", IndexDir, FALSE)

----------------------------------------------------------------------------
(* C19: when FaissStore.load throws, the run is not rejected by it: the next call
   creates a store with FaissStore.fromTexts([], []), the run goes on to load the
   ledger and list the directory, and it enters the per-file loop with an empty
   store. *)
C19_OpenFailureRecovered ==
    /\ error # "load"
    /\ \A i \in 1..Len(ops) :
          ops[i] = Op("load", IndexDir, FALSE) =>
              /\ i = 1
              /\ Len(ops) >= 4
              /\ ops[2] = Op("fromTexts", IndexDir, TRUE)
              /\ ops[3].op = "loadMeta"
              /\ ops[4].op = "readdir"
              /\ (pc = "loop" /\ Len(ops) = 4) => vectorStore = EmptyBag

\* a run whose FaissStore.load threw went on to insert a document,
\* write the index and the ledger, and query
C19_Witness ==
    /\ pc = "done"
    /\ ops[1] = Op("load", IndexDir, FALSE)
    /\ Len(Inserts) >= 1
    /\ ops[Len(ops)] = Op("query", IndexDir, TRUE)
    /\ loadFileMetadata(diskMeta) # EmptyLedger

----------------------------------------------------------------------------
(* C20: the document inserted for a file is stored under the file's path, the id a
   later delete for that path uses: once a run has deleted and re-inserted a file, the
   store holds exactly one document for it, under that id, with the file's present
   text.  The code does not do this (addDocuments is called without ids): TLC finds
   the invariant violated. *)
C20_DeleteRemovesInserted ==
    Syncing =>
        \A p \in Paths :
            (Visited(p) /\ OpsOf(p) = << Op("delete", p, TRUE), Op("insert", p, TRUE),
                                         Op("ledger", p, TRUE) >>) =>
                /\ VectorsOf(vectorStore, p) = 1
                /\ \A d \in DOMAIN vectorStore :
                      d.source = p => (d.id = p /\ d.content = FileContent(p))

----------------------------------------------------------------------------
\* the store the run works on holds no document under the id p
NoSuchId(p) == \A d \in DOMAIN vectorStore : d.id # p

(* C21: a delete for an id the index does not hold passes as a no-op: whenever a run
   has issued a delete for a file and the store holds no document under that id, the
   same iteration goes on to the insert for that file.  The code does not ensure
   this: the delete is awaited inside the try block with nothing around it, so
   when the store rejects the unknown id the catch block ends the iteration.  TLC
   finds the invariant violated. *)
C21_MissingIdDeleteIsNoOp ==
    Syncing =>
        \A p \in Paths :
            (Visited(p) /\ NoSuchId(p) /\ Len(OpsOf(p)) >= 1 /\ OpsOf(p)[1].op = "delete") =>
                /\ Len(OpsOf(p)) >= 2
                /\ OpsOf(p)[2].op = "insert"

----------------------------------------------------------------------------
(* C22: the similarity query of a run is issued with k = 5; the listing a completed
   run has printed has one entry per document returned, at most 5, in the order
   returned, numbered 1, 2, ..., each with the document's source path and the first
   200 characters of its text. *)
C22_TopFivePrinted ==
    /\ \A i \in 1..Len(ops) : ops[i].op = "query" => searched.k = 5
    /\ pc = "done" =>
          /\ Len(printed) <= 5
          /\ Len(printed) = Len(searched.docs)
          /\ \A i \in 1..Len(printed) :
                /\ printed[i].number = i
                /\ printed[i].file = searched.docs[i].source
                /\ searched.docs[i].content[1] = "chars" =>
                      printed[i].snippet =
                          << "chars", IF searched.docs[i].content[2] < 200
                                        THEN searched.docs[i].content[2] ELSE 200 >>

\* a run over an index of six documents printed five entries, one of them cut to 200
\* characters and one of them shorter than that
C22_Witness ==
    /\ pc = "done"
    /\ StoreSize(vectorStore) = 6
    /\ Len(printed) = 5
    /\ \E i, j \in 1..5 :
          /\ searched.docs[i].content = << "chars", 201 >>
          /\ printed[i].snippet = << "chars", 200 >>
          /\ printed[j].snippet = << "chars", 199 >>

----------------------------------------------------------------------------
(* C23: a run without force never removes a key from the ledger.  While the ledger
   file still holds what the run loaded, every key of the file is a key of the
   in-memory ledger, whether or not its path is in the directory listing; and what
   the run writes to the file is the in-memory ledger. *)
C23_NonForceKeepsKeys ==
    ~forceUpdate =>
        /\ (pc \in {"loop", "saveMeta"} \/ (pc = "rejected" /\ error # "query")) =>
              DOMAIN loadFileMetadata(diskMeta) \subseteq DOMAIN fileMetadata
        /\ pc \in {"query", "done"} =>
              DOMAIN loadFileMetadata(diskMeta) = DOMAIN fileMetadata

\* a run without force is about to write a ledger that still has the key of a file that
\* is gone from the directory
C23_Witness ==
    /\ ~forceUpdate
    /\ pc = "saveMeta"
    /\ \E p \in UserFiles :
          /\ ~Exists(p)
          /\ \A i \in 1..Len(listOfFiles) : listOfFiles[i] # p
          /\ p \in DOMAIN fileMetadata

\* a force run has dropped the key of a file that is gone from the directory
C23_ForceDrops ==
    /\ forceUpdate
    /\ pc = "saveMeta"
    /\ \E p \in UserFiles : p \in DOMAIN loadFileMetadata(diskMeta) /\ p \notin DOMAIN fileMetadata

----------------------------------------------------------------------------
\* the position of a path in the listing of the run (0 when it is not listed)
PosInListing(p) ==
    IF \E i \in 1..Len(listOfFiles) : listOfFiles[i] = p
        THEN CHOOSE i \in 1..Len(listOfFiles) : listOfFiles[i] = p
        ELSE 0

\* the call sequences one iteration can leave for its file
IterationShapes ==
    {<< >>, << "delete" >>, << "delete", "insert" >>, << "delete", "insert", "ledger" >>,
     << "insert" >>, << "insert", "ledger" >>}

(* C24: files are processed one at a time in the order of the listing.  Every per-file
   call in the log of a run belongs to an entry of the listing the loop has already
   finished, the calls of different files are not interleaved and follow the listing
   order, and the calls of one file are a delete (if any), then an insert, then the
   ledger update. *)
C24_OneFileAtATime ==
    pc \in {"loop", "saveMeta", "query", "done", "rejected"} =>
        /\ \A i \in 1..Len(ops) :
              Phase(ops[i].op) = 1 =>
                  /\ PosInListing(ops[i].path) >= 1
                  /\ PosInListing(ops[i].path) < idx
        /\ \A i, j \in 1..Len(ops) :
              (i < j /\ Phase(ops[i].op) = 1 /\ Phase(ops[j].op) = 1) =>
                  PosInListing(ops[i].path) <= PosInListing(ops[j].path)
        /\ \A p \in Paths : OpNames(OpsOf(p)) \in IterationShapes

\* the run has replaced the vector of a.txt and then that of b.txt
C24_Witness ==
    /\ pc = "loop"
    /\ Len(listOfFiles) >= 2
    /\ listOfFiles[1] = "a.txt" /\ listOfFiles[2] = "b.txt"
    /\ idx = 3
    /\ OpNames(OpsOf("a.txt")) = << "delete", "insert", "ledger" >>
    /\ OpNames(OpsOf("b.txt")) = << "delete", "insert", "ledger" >>

----------------------------------------------------------------------------
\* the run has issued a successful insert for p
Inserted(p) == \E i \in 1..Len(ops) : ops[i] = Op("insert", p, TRUE)

\* the in-memory entry of p is what the run loaded (or p has no entry in either)
EntryAsLoaded(p) ==
    /\ p \in DOMAIN fileMetadata <=> p \in DOMAIN LoadedLedger
    /\ p \in DOMAIN fileMetadata => fileMetadata[p] = LoadedLedger[p]

(* C25: the in-memory ledger entry of a path is created or overwritten only after the
   insert for that path has succeeded in the same run.  An entry that differs from
   the loaded one belongs to a path with a successful insert earlier in the log than
   its ledger update, and the entry of a path whose insert failed or was not
   attempted is as loaded. *)
C25_LedgerAfterInsert ==
    Syncing =>
        /\ \A j \in 1..Len(ops) :
              ops[j].op = "ledger" =>
                  \E i \in 1..(j - 1) : ops[i] = Op("insert", ops[j].path, TRUE)
        /\ \A p \in Paths : ~Inserted(p) => EntryAsLoaded(p)
        /\ \A p \in Paths :
              ~EntryAsLoaded(p) => \E j \in 1..Len(ops) : ops[j] = Op("ledger", p, TRUE)

\* the insert of a modified file failed and its entry still holds the old hash
C25_Witness ==
    /\ Syncing
    /\ \E p \in UserFiles :
          /\ Visited(p)
          /\ \E i \in 1..Len(ops) : ops[i] = Op("insert", p, FALSE)
          /\ p \in DOMAIN fileMetadata
          /\ fileMetadata[p] = LoadedLedger[p]
          /\ fileMetadata[p].hash # CurrentHash(p)

----------------------------------------------------------------------------
(* C26: the sync never indexes its own artifacts.  Neither the ledger file nor the
   persisted index is the source of a document of the store, in memory or on disk,
   and neither is a key of the ledger, in memory or in the ledger file.  The code
   does not keep the ledger file out of its loop: TLC finds the invariant violated. *)
C26_ArtifactsNotIndexed ==
    \A p \in {MetaFile, IndexDir} :
        /\ VectorsOf(vectorStore, p) = 0
        /\ VectorsOf(diskIndex.docs, p) = 0
        /\ p \notin DOMAIN fileMetadata
        /\ p \notin DOMAIN loadFileMetadata(diskMeta)

----------------------------------------------------------------------------
\* the reads and the createVector calls searchAction has issued, in order
Reads == SelectSeq(ops, LAMBDA o : o.op = "readFile")
Creates == SelectSeq(ops, LAMBDA o : o.op = "createVector")

(* C27: searchAction reads and vectorizes the filtered files one after the other in
   the order of the filter's answer: the i-th read and the i-th createVector are for
   the i-th file, and each createVector follows the read of its file.  When the
   action resolves, createVector was called exactly once per file.  A read or
   createVector that throws is the last call of the action: no later file is read
   or vectorized, and the action rejects with that error. *)
C27_SequentialVectors ==
    pc \in {"vectors", "resolved", "rejected"} =>
        /\ Len(Reads) <= Len(listOfFiles)
        /\ \A i \in 1..Len(Reads) : Reads[i].path = listOfFiles[i]
        /\ \A i \in 1..Len(Creates) : Creates[i].path = listOfFiles[i]
        /\ Len(Creates) <= Len(Reads) /\ Len(Reads) <= Len(Creates) + 1
        /\ \A i \in 1..Len(ops) :
              (ops[i].op \in {"readFile", "createVector"} /\ ~ops[i].ok) =>
                  /\ i = Len(ops)
                  /\ pc = "rejected"
                  /\ error = ops[i].op
                  /\ ops[i].path = listOfFiles[idx]
        /\ pc = "resolved" =>
              /\ Len(Creates) = Len(listOfFiles)
              /\ \A i \in 1..Len(ops) : ops[i].ok

\* createVector threw for the second of three files
C27_Witness ==
    /\ pc = "rejected"
    /\ error = "createVector"
    /\ Len(listOfFiles) = 3
    /\ idx = 2
    /\ Len(Creates) = 2

\* the action resolved after one createVector for each of three files
C27_AllVectorized ==
    /\ pc = "resolved"
    /\ Len(listOfFiles) = 3
    /\ Len(Creates) = 3

----------------------------------------------------------------------------
(* C28: when loading the configuration fails, searchAction rejects with that error and
   has called neither the file filter, nor a file read, nor createVector. *)
C28_ConfigFailureStops ==
    /\ \A i \in 1..Len(ops) :
          (ops[i].op \in ConfigFailPoints /\ ~ops[i].ok) =>
              /\ i = Len(ops)
              /\ pc = "rejected"
              /\ error = ops[i].op
    /\ error \in {"loadFileConfig", "mergeConfigs"} =>
          /\ pc = "rejected"
          /\ \A i \in 1..Len(ops) : ops[i].op \notin {"globby", "readFile", "createVector"}
          /\ listOfFiles = << >>

\* loadFileConfig threw and searchAction rejected
C28_Witness ==
    /\ pc = "rejected"
    /\ error = "loadFileConfig"
    /\ ops = << Op("loadFileConfig", "cwd", FALSE) >>

====
